---- MODULE Spec2Model ----
(***************************************************************************)
(* Themis program: the five instruction handlers of processor.rs acting on *)
(* one user account and one policies account.                              *)
(*                                                                         *)
(* The Ristretto group is modelled as the cyclic group of order GroupOrder.*)
(* A point is represented by its discrete logarithm with respect to the    *)
(* generator, so point addition is addition modulo GroupOrder and scalar   *)
(* multiplication is multiplication modulo GroupOrder.                     *)
(***************************************************************************)
EXTENDS Integers, Sequences, FiniteSets, TLC

GroupOrder == 3          \* order of the model group
MaxScalars == 2          \* longest weight list given to initialize_policies_account
MaxBatch == 2            \* longest interaction batch given to calculate_aggregate
NumInteractions == 3     \* interactions of the workload sent to each of two users

Scalar == 0 .. (GroupOrder - 1)
RistrettoPoint == 0 .. (GroupOrder - 1)
RISTRETTO_BASEPOINT_POINT == 1 % GroupOrder
IdentityPoint == 0

PointAdd(p, q) == (p + q) % GroupOrder
PointSub(p, q) == (p + GroupOrder - q) % GroupOrder
ScalarMul(s, p) == (s * p) % GroupOrder

Ciphertext == RistrettoPoint \X RistrettoPoint

\* ---- group and ciphertext algebra -----------------------------------------
encrypt(pk, m, r) == <<ScalarMul(r, RISTRETTO_BASEPOINT_POINT), PointAdd(m, ScalarMul(r, pk))>>
decrypt(sk, ct) == PointSub(ct[2], ScalarMul(sk, ct[1]))
scale(ct, s) == <<ScalarMul(s, ct[1]), ScalarMul(s, ct[2])>>
combine(a, b) == <<PointAdd(a[1], b[1]), PointAdd(a[2], b[2])>>
identity_ciphertext == <<IdentityPoint, IdentityPoint>>

\* ---- inputs the instructions are drawn from ------------------------------------
\* policy weights, interaction ciphertexts and key pairs come from small pools;
\* the proof and payment arguments range over the whole group.
WeightPool == {w \in Scalar : w # 0 /\ w <= 2}
InteractionPool ==
    {<<RISTRETTO_BASEPOINT_POINT, IdentityPoint>>,
     <<IdentityPoint, RISTRETTO_BASEPOINT_POINT>>,
     <<RISTRETTO_BASEPOINT_POINT, RISTRETTO_BASEPOINT_POINT>>}
SecretKeyPool == {sk \in Scalar : sk # 0 /\ sk <= 2}
generate_public_key(sk) == ScalarMul(sk, RISTRETTO_BASEPOINT_POINT)
PublicKeyPool == {generate_public_key(sk) : sk \in SecretKeyPool}

\* Option<RistrettoPoint>: <<>> is None, <<p>> is Some(p)
None == <<>>
Some(p) == <<p>>

\* ---- account state ---------------------------------------------------------
DefaultUser ==
    [is_initialized |-> FALSE,
     encrypted_aggregate |-> identity_ciphertext,
     public_key |-> IdentityPoint,
     decrypted_aggregate |-> None,
     proof_verified |-> FALSE,
     payment_requested |-> FALSE]

DefaultPolicies == [is_initialized |-> FALSE, scalars |-> <<>>]

\* All sequences over S of length at most n.
SeqUpTo(S, n) == UNION {[1 .. k -> S] : k \in 0 .. n}

\* Account data is a byte buffer; it either decodes to a value or it does not.
Undecodable == [decodable |-> FALSE]
Bytes(v) == [decodable |-> TRUE, value |-> v]

\* X::deserialize(&info.data.borrow()): Ok(value) or Err(DecodeError)
deserialize(data) ==
    IF data.decodable THEN [ok |-> TRUE, value |-> data.value]
    ELSE [ok |-> FALSE]
\* x.serialize(&mut info.data.borrow_mut()): the buffer afterwards
serialize(v) == Bytes(v)
\* deserialize(..).unwrap_or_default()
unwrap_or_default(r, default) == IF r.ok THEN r.value ELSE default

VARIABLES
    user_data,       \* data of the user account
    policies_data,   \* data of the policies account
    last_op,         \* the instruction processed last ("none" before the first)
    result,          \* what that instruction returned: "Ok" or the error
    other_user_data, \* data of a second user account given the same workload
    interactions,    \* the workload: the interactions every user has to submit
    unsent,          \* positions of the workload not yet submitted for the user
    other_unsent,    \* positions of the workload not yet submitted for the second user
    secret_key,      \* the secret key of the key pair the interactions are encrypted to
    expected_aggregate,   \* weights[policy_index] * plaintext summed over what was submitted
    phase,           \* run_user_workflow: the phase it is in
    num_transactions,     \* run_user_workflow: transactions built so far
    pc,              \* send_and_confirm_transactions_with_spinner: where the call is
    transactions,    \* the transactions given to the call
    pending_transactions, \* the call's pending set (keyed by signature)
    status,          \* per transaction of the call, what get_signature_statuses reports
    wire,            \* the transactions the call's latest step sent to the leader
    confirmed,       \* the transactions a poll has removed from a pending set
    slot,            \* the ledger's slot
    last_valid_slot, \* the last slot at which the call's blockhash is valid
    ret              \* what the call returned ("none" while it runs)

workload == <<other_user_data, interactions, unsent, other_unsent>>
ghost == <<secret_key, expected_aggregate>>
client == <<phase, num_transactions, pc, transactions, pending_transactions, status,
            wire, confirmed, slot, last_valid_slot, ret>>
program == <<user_data, policies_data, last_op, result>>
vars == <<program, workload, ghost, client>>

\* ---- User methods (state.rs) ------------------------------------------------
\* Each returns the user value after the call and the method's own result.

\* Sum of scale(interactions[i], scalars[i]) over the batch, weights by position.
RECURSIVE inner_product(_, _)
inner_product(ciphertexts, scalars) ==
    IF ciphertexts = <<>> THEN identity_ciphertext
    ELSE combine(scale(Head(ciphertexts), Head(scalars)),
                 inner_product(Tail(ciphertexts), Tail(scalars)))

calculate_aggregate(self, encrypted_interactions, public_key, scalars) ==
    IF ~self.is_initialized
    THEN [user |-> self, res |-> "NotInitialized"]
    ELSE IF Len(encrypted_interactions) > Len(scalars)
    THEN [user |-> self, res |-> "IndexOutOfRange"]
    ELSE [user |-> [self EXCEPT
                      !.encrypted_aggregate =
                          combine(self.encrypted_aggregate,
                                  inner_product(encrypted_interactions, scalars)),
                      !.public_key = public_key],
          res |-> "Ok"]

\* Fiat-Shamir challenge of the decryption proof, reduced into the scalar field.
Challenge(pk, ct, plaintext, announcement_g, announcement_ctx) ==
    (1 + (pk + 1) * (ct[1] + 2) + ct[2] * ct[2] + (plaintext + 1) * (announcement_g + 2)
       + announcement_ctx) % GroupOrder

\* response*generator == announcement_g + e*pk
Check1(pk, e, announcement_g, response) ==
    ScalarMul(response, RISTRETTO_BASEPOINT_POINT) = PointAdd(announcement_g, ScalarMul(e, pk))

\* response*c1 == announcement_ctx + e*(c2 - plaintext)
Check2(ct, e, plaintext, announcement_ctx, response) ==
    ScalarMul(response, ct[1]) =
        PointAdd(announcement_ctx, ScalarMul(e, PointSub(ct[2], plaintext)))

verify_correct_decryption(pk, ct, plaintext, announcement_g, announcement_ctx, response) ==
    LET e == Challenge(pk, ct, plaintext, announcement_g, announcement_ctx)
    IN  Check1(pk, e, announcement_g, response)
        /\ Check2(ct, e, plaintext, announcement_ctx, response)

submit_proof_decryption(self, plaintext, announcement_g, announcement_ctx, response) ==
    IF self.encrypted_aggregate = identity_ciphertext
    THEN [user |-> self, res |-> "AggregateNotReady"]
    ELSE IF ~verify_correct_decryption(self.public_key, self.encrypted_aggregate,
                                       plaintext, announcement_g, announcement_ctx, response)
    THEN [user |-> self, res |-> "InvalidProof"]
    ELSE [user |-> [self EXCEPT !.decrypted_aggregate = Some(plaintext),
                                !.proof_verified = TRUE],
          res |-> "Ok"]

request_payment(self, encrypted_aggregate, decrypted_aggregate, proof_correct_decryption) ==
    IF encrypted_aggregate # self.encrypted_aggregate
       \/ Some(decrypted_aggregate) # self.decrypted_aggregate
    THEN [user |-> self, res |-> "StateMismatch"]
    ELSE [user |-> [self EXCEPT !.payment_requested = TRUE], res |-> "Ok"]

\* ---- processor.rs -----------------------------------------------------------
\* process_initialize_user_account without the is_initialized check
process_initialize_user_account_NoCheck ==
    LET user == unwrap_or_default(deserialize(user_data), DefaultUser)
    IN  /\ last_op' = "initialize_user_account"
        /\ user_data' = serialize([user EXCEPT !.is_initialized = TRUE])
        /\ result' = "Ok"
        /\ UNCHANGED policies_data

\* process_initialize_user_account that writes the account back without setting
\* is_initialized
process_initialize_user_account_NoFlag ==
    LET user == unwrap_or_default(deserialize(user_data), DefaultUser)
    IN  /\ last_op' = "initialize_user_account"
        /\ IF user.is_initialized
           THEN /\ result' = "AccountInUse"
                /\ UNCHANGED <<user_data, policies_data>>
           ELSE /\ user_data' = serialize(user)
                /\ result' = "Ok"
                /\ UNCHANGED policies_data

process_initialize_user_account ==
    LET user == unwrap_or_default(deserialize(user_data), DefaultUser)
    IN  /\ last_op' = "initialize_user_account"
        /\ IF user.is_initialized
           THEN /\ result' = "AccountInUse"
                /\ UNCHANGED <<user_data, policies_data>>
           ELSE /\ user_data' = serialize([user EXCEPT !.is_initialized = TRUE])
                /\ result' = "Ok"
                /\ UNCHANGED policies_data

\* process_initialize_policies_account that stores the weights whenever the
\* buffer is still empty of weights, initialized or not
process_initialize_policies_account_EmptyCheck(scalars) ==
    LET policies == unwrap_or_default(deserialize(policies_data), DefaultPolicies)
    IN  /\ last_op' = "initialize_policies_account"
        /\ IF policies.is_initialized /\ policies.scalars # <<>>
           THEN /\ result' = "AccountInUse"
                /\ UNCHANGED <<user_data, policies_data>>
           ELSE /\ policies_data' = serialize([policies EXCEPT !.is_initialized = TRUE,
                                                               !.scalars = scalars])
                /\ result' = "Ok"
                /\ UNCHANGED user_data

process_initialize_policies_account(scalars) ==
    LET policies == unwrap_or_default(deserialize(policies_data), DefaultPolicies)
    IN  /\ last_op' = "initialize_policies_account"
        /\ IF policies.is_initialized
           THEN /\ result' = "AccountInUse"
                /\ UNCHANGED <<user_data, policies_data>>
           ELSE /\ policies_data' = serialize([policies EXCEPT !.is_initialized = TRUE,
                                                               !.scalars = scalars])
                /\ result' = "Ok"
                /\ UNCHANGED user_data

\* process_calculate_aggregate that clears an earlier decryption when it folds
calculate_aggregate_account_ResetProof(user_bytes, policies_bytes, encrypted_interactions, public_key) ==
    LET user == deserialize(user_bytes)
        policies == deserialize(policies_bytes)
    IN  IF ~user.ok \/ ~policies.ok
        THEN [data |-> user_bytes, result |-> "DecodeError"]
        ELSE [data |-> serialize([calculate_aggregate(user.value, encrypted_interactions,
                                    public_key, policies.value.scalars).user
                                  EXCEPT !.decrypted_aggregate = None,
                                         !.proof_verified = FALSE]),
              result |-> "Ok"]

\* process_calculate_aggregate on given account buffers: the user buffer afterwards
\* and the value returned.
calculate_aggregate_account(user_bytes, policies_bytes, encrypted_interactions, public_key) ==
    LET user == deserialize(user_bytes)
        policies == deserialize(policies_bytes)
    IN  IF ~user.ok \/ ~policies.ok
        THEN [data |-> user_bytes, result |-> "DecodeError"]
        ELSE \* the method's own result is dropped; the user is always written back
             [data |-> serialize(calculate_aggregate(user.value, encrypted_interactions,
                                    public_key, policies.value.scalars).user),
              result |-> "Ok"]

process_calculate_aggregate(encrypted_interactions, public_key) ==
    LET r == calculate_aggregate_account(user_data, policies_data,
                                         encrypted_interactions, public_key)
    IN  /\ last_op' = "calculate_aggregate"
        /\ user_data' = r.data
        /\ result' = r.result
        /\ UNCHANGED policies_data

\* process_submit_proof_decryption that writes the account before it reports an
\* account that did not decode
process_submit_proof_decryption_WriteDefault(plaintext, announcement_g, announcement_ctx, response) ==
    LET user == deserialize(user_data)
    IN  /\ last_op' = "submit_proof_decryption"
        /\ IF ~user.ok
           THEN /\ result' = "DecodeError"
                /\ user_data' = serialize(DefaultUser)
                /\ UNCHANGED policies_data
           ELSE /\ user_data' = serialize(submit_proof_decryption(user.value, plaintext,
                                    announcement_g, announcement_ctx, response).user)
                /\ result' = "Ok"
                /\ UNCHANGED policies_data

\* process_submit_proof_decryption that never writes the user back
process_submit_proof_decryption_NoWrite(plaintext, announcement_g, announcement_ctx, response) ==
    LET user == deserialize(user_data)
    IN  /\ last_op' = "submit_proof_decryption"
        /\ result' = (IF user.ok THEN "Ok" ELSE "DecodeError")
        /\ UNCHANGED <<user_data, policies_data>>

process_submit_proof_decryption(plaintext, announcement_g, announcement_ctx, response) ==
    LET user == deserialize(user_data)
    IN  /\ last_op' = "submit_proof_decryption"
        /\ IF ~user.ok
           THEN /\ result' = "DecodeError"
                /\ UNCHANGED <<user_data, policies_data>>
           ELSE /\ user_data' = serialize(submit_proof_decryption(user.value, plaintext,
                                    announcement_g, announcement_ctx, response).user)
                /\ result' = "Ok"
                /\ UNCHANGED policies_data

\* process_request_payment that sets payment_requested itself, whatever
\* request_payment made of the call
process_request_payment_SetsFlag(encrypted_aggregate, decrypted_aggregate, proof_correct_decryption) ==
    LET user == deserialize(user_data)
    IN  /\ last_op' = "request_payment"
        /\ IF ~user.ok
           THEN /\ result' = "DecodeError"
                /\ UNCHANGED <<user_data, policies_data>>
           ELSE /\ user_data' = serialize([request_payment(user.value, encrypted_aggregate,
                                    decrypted_aggregate, proof_correct_decryption).user
                                    EXCEPT !.payment_requested = TRUE])
                /\ result' = "Ok"
                /\ UNCHANGED policies_data

\* process_request_payment that decodes the account the way the initializers do
process_request_payment_UnwrapOrDefault(encrypted_aggregate, decrypted_aggregate, proof_correct_decryption) ==
    LET user == unwrap_or_default(deserialize(user_data), DefaultUser)
    IN  /\ last_op' = "request_payment"
        /\ user_data' = serialize(request_payment(user, encrypted_aggregate,
                            decrypted_aggregate, proof_correct_decryption).user)
        /\ result' = "Ok"
        /\ UNCHANGED policies_data

process_request_payment(encrypted_aggregate, decrypted_aggregate, proof_correct_decryption) ==
    LET user == deserialize(user_data)
    IN  /\ last_op' = "request_payment"
        /\ IF ~user.ok
           THEN /\ result' = "DecodeError"
                /\ UNCHANGED <<user_data, policies_data>>
           ELSE /\ user_data' = serialize(request_payment(user.value, encrypted_aggregate,
                                    decrypted_aggregate, proof_correct_decryption).user)
                /\ result' = "Ok"
                /\ UNCHANGED policies_data

\* No key pair is tracked and no client call is running.
NoGhost ==
    /\ secret_key = 0
    /\ expected_aggregate = IdentityPoint

ClientIdle ==
    /\ phase = "none"
    /\ num_transactions = 0
    /\ pc = "idle"
    /\ transactions = {}
    /\ pending_transactions = {}
    /\ status = <<>>
    /\ wire = {}
    /\ confirmed = {}
    /\ slot = 0
    /\ last_valid_slot = 0
    /\ ret = "none"

\* ---- specification ----------------------------------------------------------
\* A new account holds zeroed bytes (they decode to the default value) or bytes
\* that do not decode.
Init ==
    /\ user_data \in {Bytes(DefaultUser), Undecodable}
    /\ policies_data \in {Bytes(DefaultPolicies), Undecodable}
    /\ last_op = "none"
    /\ result = "Ok"
    /\ other_user_data = Bytes(DefaultUser)
    /\ interactions = <<>>
    /\ unsent = {}
    /\ other_unsent = {}
    /\ NoGhost
    /\ ClientIdle

InitializeUserAccount ==
    /\ process_initialize_user_account
    /\ UNCHANGED <<workload, ghost, client>>

InitializePoliciesAccount ==
    /\ \E scalars \in SeqUpTo(WeightPool, MaxScalars) :
          process_initialize_policies_account(scalars)
    /\ UNCHANGED <<workload, ghost, client>>

CalculateAggregate ==
    /\ \E encrypted_interactions \in SeqUpTo(InteractionPool, MaxBatch),
          public_key \in PublicKeyPool :
          process_calculate_aggregate(encrypted_interactions, public_key)
    /\ UNCHANGED <<workload, ghost, client>>

SubmitProofDecryption ==
    /\ \E plaintext \in RistrettoPoint, announcement_g \in RistrettoPoint,
          announcement_ctx \in RistrettoPoint, response \in Scalar :
          process_submit_proof_decryption(plaintext, announcement_g, announcement_ctx,
                                          response)
    /\ UNCHANGED <<workload, ghost, client>>

RequestPayment ==
    /\ \E encrypted_aggregate \in Ciphertext, decrypted_aggregate \in RistrettoPoint,
          proof_correct_decryption \in {RISTRETTO_BASEPOINT_POINT} :
          process_request_payment(encrypted_aggregate, decrypted_aggregate,
                                  proof_correct_decryption)
    /\ UNCHANGED <<workload, ghost, client>>

Next ==
    \/ InitializeUserAccount
    \/ InitializePoliciesAccount
    \/ CalculateAggregate
    \/ SubmitProofDecryption
    \/ RequestPayment

Spec == Init /\ [][Next]_vars

\* ---- the same workload submitted to two user accounts ----------------------
\* Two initialized users and one initialized policies account; every user is sent
\* every interaction of the workload once, in batches no longer than the weight
\* list, in any order and with any split into calculate_aggregate calls.
FreshUser == [DefaultUser EXCEPT !.is_initialized = TRUE]

\* All orderings of all non-empty subsets of S with at most n elements.
Orderings(S, n) ==
    {o \in SeqUpTo(S, n) : o # <<>> /\ \A i, j \in DOMAIN o : i # j => o[i] # o[j]}

Range(f) == {f[i] : i \in DOMAIN f}

InitOrder ==
    /\ user_data = Bytes(FreshUser)
    /\ other_user_data = Bytes(FreshUser)
    /\ \E scalars \in [1 .. MaxScalars -> WeightPool] :
          policies_data = Bytes([is_initialized |-> TRUE, scalars |-> scalars])
    /\ interactions \in [1 .. NumInteractions -> InteractionPool]
    /\ unsent = 1 .. NumInteractions
    /\ other_unsent = 1 .. NumInteractions
    /\ last_op = "none"
    /\ result = "Ok"
    /\ NoGhost
    /\ ClientIdle

SubmitInteractions ==
    \E order \in Orderings(unsent, MaxScalars), public_key \in PublicKeyPool :
        /\ process_calculate_aggregate([i \in DOMAIN order |-> interactions[order[i]]],
                                       public_key)
        /\ unsent' = unsent \ Range(order)
        /\ UNCHANGED <<other_user_data, interactions, other_unsent, ghost, client>>

SubmitInteractionsOther ==
    \E order \in Orderings(other_unsent, MaxScalars), public_key \in PublicKeyPool :
        LET r == calculate_aggregate_account(other_user_data, policies_data,
                     [i \in DOMAIN order |-> interactions[order[i]]], public_key)
        IN  /\ other_user_data' = r.data
            /\ result' = r.result
            /\ last_op' = "calculate_aggregate"
            /\ other_unsent' = other_unsent \ Range(order)
            /\ UNCHANGED <<user_data, policies_data, interactions, unsent, ghost, client>>

NextOrder ==
    \/ SubmitInteractions
    \/ SubmitInteractionsOther

SpecOrder == InitOrder /\ [][NextOrder]_vars

\* ---- properties -------------------------------------------------------------
UserDecodes == user_data.decodable
StoredUser == user_data.value
PoliciesDecode == policies_data.decodable
StoredPolicies == policies_data.value
UserInitialized == UserDecodes /\ StoredUser.is_initialized
PoliciesInitialized == PoliciesDecode /\ StoredPolicies.is_initialized

\* C1: submit_proof_decryption on an initialized user with a proof for which one
\* of the two verification equations fails returns InvalidProof and leaves the
\* user account as it was.
C1_InvalidProofFails ==
    [][\A plaintext \in RistrettoPoint, announcement_g \in RistrettoPoint,
          announcement_ctx \in RistrettoPoint, response \in Scalar :
          (/\ UserInitialized
           /\ ~verify_correct_decryption(StoredUser.public_key,
                  StoredUser.encrypted_aggregate, plaintext, announcement_g,
                  announcement_ctx, response)
           /\ process_submit_proof_decryption(plaintext, announcement_g,
                  announcement_ctx, response))
          => (result' = "InvalidProof" /\ user_data' = user_data)]_vars

\* C2: request_payment with an encrypted_aggregate or decrypted_aggregate other
\* than the stored one returns StateMismatch and does not set payment_requested.
C2_MismatchFails ==
    [][\A encrypted_aggregate \in Ciphertext, decrypted_aggregate \in RistrettoPoint,
          proof_correct_decryption \in RistrettoPoint :
          (/\ UserDecodes
           /\ (encrypted_aggregate # StoredUser.encrypted_aggregate
               \/ Some(decrypted_aggregate) # StoredUser.decrypted_aggregate)
           /\ process_request_payment(encrypted_aggregate, decrypted_aggregate,
                  proof_correct_decryption))
          => (/\ result' = "StateMismatch"
              /\ user_data'.value.payment_requested = StoredUser.payment_requested)]_vars

\* C3: in every reachable state decrypted_aggregate is Some only if proof_verified
\* is true, and payment_requested is true only if proof_verified is true.
C3_FlagsImplyProof ==
    UserDecodes =>
        /\ (StoredUser.decrypted_aggregate # None => StoredUser.proof_verified)
        /\ (StoredUser.payment_requested => StoredUser.proof_verified)

C3_Witness ==
    /\ UserDecodes
    /\ StoredUser.payment_requested
    /\ StoredUser.proof_verified
    /\ StoredUser.decrypted_aggregate # None
    /\ last_op = "request_payment"

C5_AlreadyInitialized ==
    [][\A scalars \in SeqUpTo(WeightPool, MaxScalars) :
          (PoliciesInitialized /\ process_initialize_policies_account(scalars))
          => (result' = "AlreadyInitialized" /\ policies_data' = policies_data)]_vars

\* C5 (amended): once the policies account is initialized no instruction changes
\* its data, and initialize_policies_account on it returns AccountInUse.
C5_ScalarsImmutable ==
    [][PoliciesInitialized =>
          /\ policies_data' = policies_data
          /\ (last_op' = "initialize_policies_account" => result' = "AccountInUse")]_vars

C5_Witness ==
    /\ last_op = "initialize_policies_account"
    /\ result = "AccountInUse"
    /\ PoliciesInitialized
    /\ UserInitialized
    /\ StoredUser.encrypted_aggregate # identity_ciphertext

\* C6: initialize_user_account on an initialized user account, in whatever later
\* lifecycle state, returns AccountInUse and leaves the account as it was.
C6_ReinitializeFails ==
    [][(UserInitialized /\ last_op' = "initialize_user_account")
          => (result' = "AccountInUse" /\ user_data' = user_data)]_vars

C6_Witness ==
    /\ last_op = "initialize_user_account"
    /\ result = "AccountInUse"
    /\ UserInitialized
    /\ StoredUser.payment_requested
    /\ StoredUser.encrypted_aggregate # identity_ciphertext

\* C7: calculate_aggregate returns NotInitialized and leaves the user account as
\* it was whenever the user or the policies account has is_initialized = false.
C7_NotInitializedFails ==
    [][\A encrypted_interactions \in SeqUpTo(InteractionPool, MaxBatch),
          public_key \in PublicKeyPool :
          (/\ UserDecodes /\ PoliciesDecode
           /\ (~StoredUser.is_initialized \/ ~StoredPolicies.is_initialized)
           /\ process_calculate_aggregate(encrypted_interactions, public_key))
          => (result' = "NotInitialized" /\ user_data' = user_data)]_vars

\* C8: submit_proof_decryption on an initialized user whose encrypted_aggregate is
\* still the identity ciphertext returns AggregateNotReady, whatever the proof,
\* and does not make the account Decrypted.
C8_AggregateNotReadyFails ==
    [][\A plaintext \in RistrettoPoint, announcement_g \in RistrettoPoint,
          announcement_ctx \in RistrettoPoint, response \in Scalar :
          (/\ UserInitialized
           /\ StoredUser.encrypted_aggregate = identity_ciphertext
           /\ process_submit_proof_decryption(plaintext, announcement_g,
                  announcement_ctx, response))
          => (result' = "AggregateNotReady" /\ ~user_data'.value.proof_verified)]_vars

\* C9: once payment_requested is true, calculate_aggregate is rejected and no
\* instruction changes any field of the user account.
C9_PaymentRequestedTerminal ==
    [][(UserDecodes /\ StoredUser.payment_requested)
          => (/\ user_data' = user_data
              /\ (last_op' = "calculate_aggregate" => result' # "Ok"))]_vars

\* C10: two users sent the same interactions, in whatever order and split into
\* whatever calculate_aggregate calls, end with the same encrypted_aggregate.
C10_OrderIndependent ==
    (unsent = {} /\ other_unsent = {})
        => user_data.value.encrypted_aggregate = other_user_data.value.encrypted_aggregate

C13_IndexOutOfRangeFails ==
    [][\A encrypted_interactions \in SeqUpTo(InteractionPool, MaxBatch),
          public_key \in PublicKeyPool :
          (/\ UserInitialized /\ PoliciesInitialized
           /\ Len(encrypted_interactions) > Len(StoredPolicies.scalars)
           /\ process_calculate_aggregate(encrypted_interactions, public_key))
          => (/\ result' = "IndexOutOfRange"
              /\ user_data'.value.encrypted_aggregate = StoredUser.encrypted_aggregate)]_vars

HonestPlaintext(sk, ct) == decrypt(sk, ct)
HonestAnnouncementG(w) == ScalarMul(w, RISTRETTO_BASEPOINT_POINT)
HonestAnnouncementCtx(w, ct) == ScalarMul(w, ct[1])
HonestResponse(sk, w, ct) ==
    (w + Challenge(generate_public_key(sk), ct, HonestPlaintext(sk, ct),
                   HonestAnnouncementG(w), HonestAnnouncementCtx(w, ct)) * sk) % GroupOrder

\* The instructions up to the decryption proof, with every proof built by the
\* holder of the secret key of the user's public key.
SubmitHonestProof ==
    /\ UserDecodes
    /\ \E sk \in Scalar, w \in Scalar :
          LET ct == StoredUser.encrypted_aggregate
          IN  /\ StoredUser.public_key = generate_public_key(sk)
              /\ process_submit_proof_decryption(HonestPlaintext(sk, ct),
                     HonestAnnouncementG(w), HonestAnnouncementCtx(w, ct),
                     HonestResponse(sk, w, ct))
    /\ UNCHANGED <<workload, ghost, client>>

NextProof ==
    \/ InitializeUserAccount
    \/ InitializePoliciesAccount
    \/ CalculateAggregate
    \/ SubmitHonestProof

SpecProof == Init /\ [][NextProof]_vars

\* C15: for every key pair and nonce, the proof built for the true decryption of
\* a non-identity stored aggregate is accepted: decrypted_aggregate becomes that
\* plaintext, proof_verified becomes true, encrypted_aggregate stays.
C15_HonestProofAccepted ==
    [][(/\ last_op' = "submit_proof_decryption"
        /\ UserInitialized
        /\ StoredUser.encrypted_aggregate # identity_ciphertext)
       => LET ct == StoredUser.encrypted_aggregate
          IN  \A sk \in Scalar :
                 StoredUser.public_key = generate_public_key(sk)
                 => (/\ result' = "Ok"
                     /\ user_data'.value.decrypted_aggregate = Some(HonestPlaintext(sk, ct))
                     /\ user_data'.value.proof_verified
                     /\ user_data'.value.encrypted_aggregate = ct)]_vars

C15_Witness ==
    /\ last_op = "submit_proof_decryption"
    /\ result = "Ok"
    /\ UserInitialized
    /\ StoredUser.proof_verified
    /\ StoredUser.encrypted_aggregate[1] # IdentityPoint
    /\ \E sk \in SecretKeyPool :
          /\ StoredUser.public_key = generate_public_key(sk)
          /\ StoredUser.decrypted_aggregate
                 = Some(HonestPlaintext(sk, StoredUser.encrypted_aggregate))

TaggedInteraction ==
    [policy_index : 0 .. (MaxScalars - 1), m : RistrettoPoint, r : Scalar]

RECURSIVE weighted_sum(_, _)
weighted_sum(batch, weights) ==
    IF batch = <<>> THEN IdentityPoint
    ELSE PointAdd(ScalarMul(weights[Head(batch).policy_index + 1], Head(batch).m),
                  weighted_sum(Tail(batch), weights))

InitAgg ==
    /\ user_data = Bytes(FreshUser)
    /\ \E scalars \in UNION {[1 .. k -> WeightPool] : k \in 1 .. MaxScalars} :
          policies_data = Bytes([is_initialized |-> TRUE, scalars |-> scalars])
    /\ last_op = "none"
    /\ result = "Ok"
    /\ other_user_data = Bytes(DefaultUser)
    /\ interactions = <<>>
    /\ unsent = {}
    /\ other_unsent = {}
    /\ secret_key \in SecretKeyPool
    /\ expected_aggregate = IdentityPoint
    /\ ClientIdle

SubmitTaggedInteractions ==
    \E batch \in SeqUpTo(TaggedInteraction, MaxBatch) :
        LET weights == StoredPolicies.scalars
            pk == generate_public_key(secret_key)
        IN  /\ batch # <<>>
            /\ Len(batch) <= Len(weights)
            /\ \A i \in DOMAIN batch : batch[i].policy_index < Len(weights)
            /\ process_calculate_aggregate(
                   [i \in DOMAIN batch |-> encrypt(pk, batch[i].m, batch[i].r)], pk)
            /\ expected_aggregate' = PointAdd(expected_aggregate, weighted_sum(batch, weights))
            /\ UNCHANGED <<workload, secret_key, client>>

NextAgg == SubmitTaggedInteractions

SpecAgg == InitAgg /\ [][NextAgg]_vars

\* C11: after calculate_aggregate calls submitting (policy_index_i, encrypt(pk, m_i, r_i)),
\* the stored encrypted_aggregate decrypts under the matching secret key to the
\* sum of weights[policy_index_i] * m_i.
C11_DecryptsToWeightedSum ==
    decrypt(secret_key, StoredUser.encrypted_aggregate) = expected_aggregate

\* ---- send_and_confirm_transactions_with_spinner (client, lib.rs) ------------
NumTransactions == 2     \* most transactions given to one call
MaxSlot == 2             \* the ledger's slot stops advancing here

\* What get_signature_statuses reports for a signature: None, or a status whose
\* confirmations is Some(count) or None (rooted).
ConfirmationPool == {1, 2}
NoStatus == None
Confirmations(n) == Some([confirmations |-> Some(n)])
Rooted == Some([confirmations |-> None])
StatusValues == {NoStatus} \cup {Confirmations(n) : n \in ConfirmationPool} \cup {Rooted}

\* lib.rs:105-106
is_confirmed_WrongThreshold(s) ==
    /\ s # None
    /\ \/ s[1].confirmations = None
       \/ s[1].confirmations[1] > 0

is_confirmed(s) ==
    /\ s # None
    /\ \/ s[1].confirmations = None
       \/ s[1].confirmations[1] > 1

\* The ledger moves a sent transaction one step on: processed with one
\* confirmation, then with more, then rooted.
next_status(s) ==
    IF s = NoStatus THEN Confirmations(1)
    ELSE IF s = Confirmations(1) THEN Confirmations(2)
    ELSE Rooted

LedgerStep ==
    /\ pc \in {"poll", "get_slot"}
    /\ \E t \in transactions :
          /\ status[t] # Rooted
          /\ status' = [status EXCEPT ![t] = next_status(status[t])]
    /\ UNCHANGED <<program, workload, ghost, phase, num_transactions, pc, transactions,
                   pending_transactions, wire, confirmed, slot, last_valid_slot, ret>>

AdvanceSlot ==
    /\ slot < MaxSlot
    /\ slot' = slot + 1
    /\ UNCHANGED <<program, workload, ghost, phase, num_transactions, pc, transactions,
                   pending_transactions, status, wire, confirmed, last_valid_slot, ret>>

\* lib.rs:52-62, the leader is found
FindLeader ==
    /\ pc = "find_leader"
    /\ pc' = "send"
    /\ UNCHANGED <<program, workload, ghost, phase, num_transactions, transactions,
                   pending_transactions, status, wire, confirmed, slot, last_valid_slot, ret>>

\* lib.rs:52-55, get_epoch_info or get_leader_schedule fails: the ? returns the error
FindLeaderFails ==
    /\ pc = "find_leader"
    /\ pc' = "done"
    /\ ret' = "RpcError"
    /\ UNCHANGED <<program, workload, ghost, phase, num_transactions, transactions,
                   pending_transactions, status, wire, confirmed, slot, last_valid_slot>>

\* lib.rs:64-77
SendAll ==
    /\ pc = "send"
    /\ wire' = transactions
    /\ pending_transactions' = transactions
    /\ pc' = "poll"
    /\ UNCHANGED <<program, workload, ghost, phase, num_transactions, transactions,
                   status, confirmed, slot, last_valid_slot, ret>>

\* lib.rs:80-119, one poll: the confirmed transactions leave the pending set
PollStatuses ==
    /\ pc = "poll"
    /\ LET removed == {t \in pending_transactions : is_confirmed(status[t])}
       IN  /\ pending_transactions' = pending_transactions \ removed
           /\ confirmed' = confirmed \cup removed
           /\ wire' = {}
           /\ IF pending_transactions \ removed = {}
              THEN pc' = "done" /\ ret' = "Ok"
              ELSE pc' = "get_slot" /\ ret' = ret
    /\ UNCHANGED <<program, workload, ghost, phase, num_transactions, transactions,
                   status, slot, last_valid_slot>>

\* lib.rs:96-97, get_signature_statuses fails (it is called once per chunk of
\* pending signatures, so not at all when nothing is pending)
PollFails ==
    /\ pc = "poll"
    /\ pending_transactions # {}
    /\ pc' = "done"
    /\ ret' = "RpcError"
    /\ wire' = {}
    /\ UNCHANGED <<program, workload, ghost, phase, num_transactions, transactions,
                   pending_transactions, status, confirmed, slot, last_valid_slot>>

\* lib.rs:121-132 with the slot test never true
GetSlotAndResend_NeverExpires ==
    /\ pc = "get_slot"
    /\ wire' = pending_transactions
    /\ pc' = "poll"
    /\ UNCHANGED <<program, workload, ghost, phase, num_transactions, transactions,
                   pending_transactions, status, confirmed, slot, last_valid_slot, ret>>

\* lib.rs:121-132
GetSlotAndResend ==
    /\ pc = "get_slot"
    /\ IF slot > last_valid_slot
       THEN /\ pc' = "done"
            /\ ret' = "TransactionsFailed"
            /\ wire' = {}
       ELSE /\ wire' = pending_transactions
            /\ pc' = "poll"
            /\ ret' = ret
    /\ UNCHANGED <<program, workload, ghost, phase, num_transactions, transactions,
                   pending_transactions, status, confirmed, slot, last_valid_slot>>

\* lib.rs:121, get_slot_with_commitment fails
GetSlotFails ==
    /\ pc = "get_slot"
    /\ pc' = "done"
    /\ ret' = "RpcError"
    /\ wire' = {}
    /\ UNCHANGED <<program, workload, ghost, phase, num_transactions, transactions,
                   pending_transactions, status, confirmed, slot, last_valid_slot>>

ProgramIdle ==
    /\ user_data = Bytes(DefaultUser)
    /\ policies_data = Bytes(DefaultPolicies)
    /\ last_op = "none"
    /\ result = "Ok"

WorkloadIdle ==
    /\ other_user_data = Bytes(DefaultUser)
    /\ interactions = <<>>
    /\ unsent = {}
    /\ other_unsent = {}

\* One call, given up to NumTransactions transactions and a last valid slot.
InitSend ==
    /\ ProgramIdle
    /\ WorkloadIdle
    /\ NoGhost
    /\ phase = "none"
    /\ num_transactions = 0
    /\ pc = "find_leader"
    /\ transactions \in {1 .. n : n \in 0 .. NumTransactions}
    /\ pending_transactions = {}
    /\ status = [t \in transactions |-> NoStatus]
    /\ wire = {}
    /\ confirmed = {}
    /\ slot = 0
    /\ last_valid_slot \in 0 .. (MaxSlot - 1)
    /\ ret = "none"

NextSend ==
    \/ FindLeader
    \/ FindLeaderFails
    \/ SendAll
    \/ PollStatuses
    \/ PollFails
    \/ GetSlotAndResend
    \/ GetSlotFails
    \/ LedgerStep
    \/ AdvanceSlot

SpecSend == InitSend /\ [][NextSend]_vars

\* The call when every RPC call succeeds, the client keeps running and the
\* ledger's slot keeps advancing.
ClientStep ==
    \/ FindLeader
    \/ SendAll
    \/ PollStatuses
    \/ GetSlotAndResend

NextSendFair ==
    \/ ClientStep
    \/ LedgerStep
    \/ AdvanceSlot

SpecSendFair ==
    InitSend /\ [][NextSendFair]_vars /\ WF_vars(ClientStep) /\ WF_vars(AdvanceSlot)

\* C17: the call returns Ok only with an empty pending set, every transaction
\* then reported with confirmations None or greater than 1; after the initial
\* send the pending set never grows, and a transaction removed from it is never
\* sent again.
C17_OkOnlyWhenConfirmed ==
    /\ [](ret = "Ok"
            => /\ pending_transactions = {}
               /\ \A t \in transactions :
                     /\ status[t] # None
                     /\ \/ status[t][1].confirmations = None
                        \/ status[t][1].confirmations[1] > 1)
    /\ [][pc # "send" => pending_transactions' \subseteq pending_transactions]_vars
    /\ [][\A t \in transactions :
             (pc # "send" /\ t \notin pending_transactions) => t \notin wire']_vars

C17_Witness ==
    /\ ret = "Ok"
    /\ Cardinality(transactions) = NumTransactions
    /\ confirmed = transactions

\* C18: with RPC calls succeeding and the slot advancing the call terminates; a
\* polling round returns Ok with nothing pending, or goes on to read the slot;
\* after reading the slot the call returns "Transactions failed" when the slot
\* is greater than last_valid_slot and resends exactly the pending transactions
\* otherwise, so it never resends after the slot has passed last_valid_slot.
C18_LoopTerminates ==
    /\ <>(pc = "done")
    /\ [][(pc = "poll" /\ pc' # "poll")
            => \/ pc' = "done" /\ ret' = "Ok" /\ pending_transactions' = {}
               \/ pc' = "get_slot" /\ pending_transactions' # {}]_vars
    /\ [][(pc = "get_slot" /\ pc' # "get_slot")
            => IF slot > last_valid_slot
               THEN pc' = "done" /\ ret' = "TransactionsFailed" /\ wire' = {}
               ELSE pc' = "poll" /\ wire' = pending_transactions
                    /\ pending_transactions # {}]_vars

C18_Witness ==
    /\ pc = "done"
    /\ ret = "TransactionsFailed"
    /\ pending_transactions # {}
    /\ confirmed # {}
    /\ slot > last_valid_slot

\* ---- run_user_workflow (client, lib.rs) -------------------------------------
NumUsers == 2            \* sender keypairs given to run_user_workflow
policies_len == 2        \* interactions given to it, one per policy
BlockhashValidSlots == 1 \* slots a fetched blockhash stays valid for

Users == 1 .. NumUsers

\* lib.rs:349-352: every interaction encrypts the base point
workflow_interactions ==
    [i \in 1 .. policies_len |->
        encrypt(generate_public_key(1), RISTRETTO_BASEPOINT_POINT, i % GroupOrder)]

\* lib.rs:160-168
create_user_account_tx(u) ==
    [kind |-> "create_user_account", user |-> u, data |-> <<>>]

\* lib.rs:194-202: one interaction, tagged with its index
submit_interactions_tx(u, i) ==
    [kind |-> "submit_interactions", user |-> u,
     data |-> << <<i - 1, workflow_interactions[i]>> >>]

\* lib.rs:238-258: the proof sent is a fixed dummy
submit_proof_decryption_tx(u) ==
    [kind |-> "submit_proof_decryption", user |-> u,
     data |-> <<RISTRETTO_BASEPOINT_POINT, RISTRETTO_BASEPOINT_POINT,
                RISTRETTO_BASEPOINT_POINT, 0>>]

create_user_account_txs == {create_user_account_tx(u) : u \in Users}
submit_interactions_txs ==
    {submit_interactions_tx(u, i) : u \in Users, i \in 1 .. policies_len}
submit_proof_decryption_txs == {submit_proof_decryption_tx(u) : u \in Users}

Phases == {"create_user_accounts", "submit_interactions", "submit_proof_decryption"}

phase_transactions(ph) ==
    CASE ph = "create_user_accounts" -> create_user_account_txs
      [] ph = "submit_interactions" -> submit_interactions_txs
      [] ph = "submit_proof_decryption" -> submit_proof_decryption_txs

next_phase(ph) ==
    CASE ph = "create_user_accounts" -> "submit_interactions"
      [] ph = "submit_interactions" -> "submit_proof_decryption"
      [] ph = "submit_proof_decryption" -> "finished"

\* lib.rs:152-178, 182-213, 216-267: the blockhash is fetched, the phase's
\* transactions are built and send_and_confirm_transactions_with_spinner is called
BeginPhase ==
    /\ phase \in Phases
    /\ pc = "idle"
    /\ last_valid_slot' = slot + BlockhashValidSlots
    /\ transactions' = phase_transactions(phase)
    /\ num_transactions' = num_transactions + Cardinality(phase_transactions(phase))
    /\ status' = [t \in phase_transactions(phase) |-> NoStatus]
    /\ pending_transactions' = {}
    /\ wire' = {}
    /\ ret' = "none"
    /\ pc' = "find_leader"
    /\ UNCHANGED <<program, workload, ghost, phase, confirmed, slot>>

\* lib.rs:152-153, 182-183, 216-217: get_recent_blockhash_with_commitment fails
BlockhashFails ==
    /\ phase \in Phases
    /\ pc = "idle"
    /\ phase' = "failed"
    /\ UNCHANGED <<program, workload, ghost, num_transactions, pc, transactions,
                   pending_transactions, status, wire, confirmed, slot, last_valid_slot, ret>>

\* the call's result taken without looking at it
unwrap_result_IgnoresErr ==
    /\ phase \in Phases
    /\ pc = "done"
    /\ phase' = next_phase(phase)
    /\ pc' = "idle"
    /\ transactions' = {}
    /\ pending_transactions' = {}
    /\ status' = <<>>
    /\ wire' = {}
    /\ UNCHANGED <<program, workload, ghost, num_transactions, confirmed, slot,
                   last_valid_slot, ret>>

\* lib.rs:179, 214, 268: .unwrap() of what the call returned; the call's locals
\* are gone
unwrap_result ==
    /\ phase \in Phases
    /\ pc = "done"
    /\ phase' = IF ret = "Ok" THEN next_phase(phase) ELSE "panicked"
    /\ pc' = "idle"
    /\ transactions' = {}
    /\ pending_transactions' = {}
    /\ status' = <<>>
    /\ wire' = {}
    /\ UNCHANGED <<program, workload, ghost, num_transactions, confirmed, slot,
                   last_valid_slot, ret>>

InitWorkflow ==
    /\ ProgramIdle
    /\ WorkloadIdle
    /\ NoGhost
    /\ phase = "create_user_accounts"
    /\ num_transactions = 0
    /\ pc = "idle"
    /\ transactions = {}
    /\ pending_transactions = {}
    /\ status = <<>>
    /\ wire = {}
    /\ confirmed = {}
    /\ slot = 0
    /\ last_valid_slot = 0
    /\ ret = "none"

NextWorkflow ==
    \/ BeginPhase
    \/ BlockhashFails
    \/ unwrap_result
    \/ FindLeader
    \/ FindLeaderFails
    \/ SendAll
    \/ PollStatuses
    \/ PollFails
    \/ GetSlotAndResend
    \/ GetSlotFails
    \/ LedgerStep
    \/ AdvanceSlot

SpecWorkflow == InitWorkflow /\ [][NextWorkflow]_vars

\* C19: a submit-interactions transaction is sent only after every
\* create-user-account transaction was confirmed, a submit-proof-decryption
\* transaction only after every submit-interactions transaction was; the
\* interaction phase sends, in one go, one transaction per user and policy
\* index i, carrying interaction i alone.
C19_PhaseOrdering ==
    /\ [](\A t \in wire :
            /\ t.kind = "submit_interactions" => create_user_account_txs \subseteq confirmed
            /\ t.kind = "submit_proof_decryption"
                  => (create_user_account_txs \cup submit_interactions_txs) \subseteq confirmed)
    /\ [][(phase = "submit_interactions" /\ pc = "send" /\ pc' # "send")
            => /\ Cardinality(wire') = NumUsers * policies_len
               /\ \A t \in wire' : t.kind = "submit_interactions" /\ Len(t.data) = 1
               /\ \A u \in Users, i \in 1 .. policies_len :
                     \E t \in wire' :
                        /\ t.user = u
                        /\ t.data[1] = <<i - 1, workflow_interactions[i]>>]_vars

C19_Witness ==
    /\ phase = "submit_proof_decryption"
    /\ wire = submit_proof_decryption_txs
    /\ (create_user_account_txs \cup submit_interactions_txs) \subseteq confirmed

====
